---- MODULE Spec2Model ----
(***************************************************************************)
(* cloudflare-r2-rs: the type-state configuration builder                  *)
(* (R2ManagerBuilder) and the storage client (CloudFlareR2) of src/lib.rs. *)
(*                                                                         *)
(* Four specifications share this module:                                  *)
(*   Spec          the builder, its setters, build and get_bucket_name     *)
(*   ObjSpec       create/delete bucket, put/get/delete object             *)
(*   ListSpec      list_keys, several invocations interleaved              *)
(*   DownloadSpec  download_file against a local file system               *)
(***************************************************************************)
EXTENDS Integers, Sequences, FiniteSets, TLC

VARIABLES
    builder,    \* the R2ManagerBuilder value, fields and phantom markers
    hist,       \* ghost: per setter, the arguments it was called with, in order
    lastOp,     \* ghost: the operation that acted last
    client,     \* the CloudFlareR2 value, NoClient before build
    ret,        \* what the last builder-side call returned
    store,      \* the storage service: buckets and their objects
    call,       \* the running object/bucket operation of the caller
    lastPut,    \* ghost: per key, the body of the last successful put_object
    listing,    \* the storage service: the keys of the bucket and its page size
    lk,         \* per list_keys invocation: its locals and its position
    dl,         \* the running download_file invocation
    fs          \* the local file system, now and before the download

\* what the actions of one specification leave alone
notBuilder  == <<store, call, lastPut, listing, lk, dl, fs>>
notObj      == <<builder, hist, lastOp, client, ret, listing, lk, dl, fs>>
notList     == <<builder, hist, lastOp, client, ret, store, call, lastPut, listing, dl, fs>>
notDownload == <<builder, hist, lastOp, client, ret, store, call, lastPut, listing, lk>>
vars == <<builder, hist, lastOp, client, ret, store, call, lastPut, listing, lk, dl, fs>>

----------------------------------------------------------------------------
(* Bounds *)

\* how often one setter may be called on one builder
MaxCalls == 2

\* the longest object body put or stored, in bytes
MaxLen == 2

\* the most keys the listed bucket holds
MaxKeys == 3

\* the largest page the service serves a listing in
MaxPageSize == 2

\* the most page requests one list_keys invocation is followed for
MaxReqs == MaxKeys + 1

\* the longest object downloaded, in bytes
MaxObjLen == 3

\* the capacity of the BufWriter, scaled down from the 8 KiB of BufWriter::new
BufCap == 2

----------------------------------------------------------------------------
(* Values *)

None == "None"

Urls      == {"https://a.r2", "https://b.r2"}
Buckets   == {"bucket-a", "bucket-b"}
ClientIds == {"id-1", "id-2"}
Secrets   == {"secret-1", "secret-2"}

Setters == {"url", "bucket_name", "client_id", "secret_key"}

ArgsOf(f) ==
    CASE f = "url"         -> Urls
      [] f = "bucket_name" -> Buckets
      [] f = "client_id"   -> ClientIds
      [] f = "secret_key"  -> Secrets

NoClient == [built |-> FALSE]

----------------------------------------------------------------------------
(* R2ManagerBuilder *)

\* R2ManagerBuilder::new: no field set, every marker Empty
New ==
    [ bucket_name |-> None, url |-> None, client_id |-> None, secret_key |-> None,
      _url_state |-> "EmptyUrl", _bucket_state |-> "EmptyBucket",
      _client_id_state |-> "EmptyClientId", _secret_state |-> "EmptySecret" ]

\* a setter that also marks the bucket as present (a copy-paste slip)
url_marksBucket(self, uri) ==
    [self EXCEPT !.url = uri, !._url_state = "WithUrl", !._bucket_state = "WithBucket"]

url(self, uri) ==
    [self EXCEPT !.url = uri, !._url_state = "WithUrl"]

\* a setter that keeps a value already present (first write wins)
bucket_name_keepsFirst(self, name) ==
    [self EXCEPT !.bucket_name = IF self.bucket_name = None THEN name ELSE self.bucket_name,
                 !._bucket_state = "WithBucket"]

bucket_name(self, name) ==
    [self EXCEPT !.bucket_name = name, !._bucket_state = "WithBucket"]

client_id(self, id) ==
    [self EXCEPT !.client_id = id, !._client_id_state = "WithClientId"]

secret_key(self, secret) ==
    [self EXCEPT !.secret_key = secret, !._secret_state = "WithSecret"]

ApplySetter(f, self, v) ==
    CASE f = "url"         -> url(self, v)
      [] f = "bucket_name" -> bucket_name(self, v)
      [] f = "client_id"   -> client_id(self, v)
      [] f = "secret_key"  -> secret_key(self, v)

\* build is defined on R2ManagerBuilder<WithUrl, WithBucket, WithClientId, WithSecret> only
BuildAvailable(self) ==
    /\ self._url_state = "WithUrl"
    /\ self._bucket_state = "WithBucket"
    /\ self._client_id_state = "WithClientId"
    /\ self._secret_state = "WithSecret"

\* build: the four ok_or_else checks in their order, then the client
build(self) ==
    IF self.bucket_name = None THEN [ok |-> FALSE, err |-> "Bucket name is required"]
    ELSE IF self.url = None THEN [ok |-> FALSE, err |-> "Cloudflare URL is required"]
    ELSE IF self.client_id = None THEN [ok |-> FALSE, err |-> "Cloudflare R2 client ID is required"]
    ELSE IF self.secret_key = None THEN [ok |-> FALSE, err |-> "Cloudflare R2 secret key is required"]
    ELSE [ok |-> TRUE,
          client |-> [built |-> TRUE, bucket_name |-> self.bucket_name,
                      endpoint |-> self.url, region |-> "us-east-1",
                      access_key |-> self.client_id, secret |-> self.secret_key]]

get_bucket_name(self) == self.bucket_name

\* build takes self by value: the builder is gone afterwards
Consumed == [moved |-> TRUE]

NoRet == [op |-> "none"]

----------------------------------------------------------------------------
(* Actions of the builder *)

InitBuilder ==
    /\ builder = New
    /\ hist = [f \in Setters |-> <<>>]
    /\ lastOp = "builder"
    /\ client = NoClient
    /\ ret = NoRet

CallSetter ==
    /\ builder # Consumed
    /\ \E f \in Setters : \E v \in ArgsOf(f) :
         /\ Len(hist[f]) < MaxCalls
         /\ builder' = ApplySetter(f, builder, v)
         /\ hist' = [hist EXCEPT ![f] = Append(@, v)]
         /\ lastOp' = f
    /\ UNCHANGED <<client, ret>>
    /\ UNCHANGED notBuilder

CallBuild ==
    /\ builder # Consumed
    /\ BuildAvailable(builder)
    /\ LET r == build(builder) IN
         /\ ret' = [op |-> "build", ok |-> r.ok]
         /\ client' = IF r.ok THEN r.client ELSE NoClient
    /\ builder' = Consumed
    /\ lastOp' = "build"
    /\ UNCHANGED hist
    /\ UNCHANGED notBuilder

CallGetBucketName ==
    /\ client.built
    /\ lastOp # "get_bucket_name"
    /\ ret' = [op |-> "get_bucket_name", ok |-> TRUE, value |-> get_bucket_name(client)]
    /\ lastOp' = "get_bucket_name"
    /\ UNCHANGED <<builder, hist, client>>
    /\ UNCHANGED notBuilder

BuilderNext ==
    \/ CallSetter
    \/ CallBuild
    \/ CallGetBucketName

Idle == [pc |-> "idle"]

Init ==
    /\ InitBuilder
    /\ store = <<>> /\ call = Idle /\ lastPut = <<>>
    /\ listing = <<>> /\ lk = <<>> /\ dl = Idle /\ fs = <<>>

Spec == Init /\ [][BuilderNext]_vars

----------------------------------------------------------------------------
(* C1: build is available exactly when each of the four setters has been   *)
(* called at least once; whenever it is available the four fields are      *)
(* present, and a build that ran did not fail with a missing field.        *)
BuilderCompleteness ==
    /\ builder # Consumed =>
         /\ BuildAvailable(builder) <=> (\A f \in Setters : Len(hist[f]) >= 1)
         /\ (ENABLED CallBuild) <=> (\A f \in Setters : Len(hist[f]) >= 1)
         /\ BuildAvailable(builder) => \A f \in Setters : builder[f] # None
    /\ builder = Consumed =>
         /\ \A f \in Setters : Len(hist[f]) >= 1
         /\ ret.op = "build" => ret.ok /\ client.built

\* build ran on a builder whose url setter was called twice
BuilderCompletenessWitness ==
    /\ builder = Consumed /\ ret.op = "build" /\ ret.ok
    /\ client.built
    /\ Len(hist["bucket_name"]) = 1 /\ Len(hist["url"]) = 2

(* C2: each builder field holds the argument of the last call of its own   *)
(* setter, a setter changes no other field and no other marker, and the    *)
(* client built afterwards reports the last bucket name.                   *)
LastWriteHolds ==
    /\ builder # Consumed =>
         \A f \in Setters :
            builder[f] = IF hist[f] = <<>> THEN None ELSE hist[f][Len(hist[f])]
    /\ client.built =>
         /\ client.bucket_name = hist["bucket_name"][Len(hist["bucket_name"])]
         /\ ret.op = "get_bucket_name" =>
              ret.value = hist["bucket_name"][Len(hist["bucket_name"])]

MarkerOf(f) ==
    CASE f = "url"         -> "_url_state"
      [] f = "bucket_name" -> "_bucket_state"
      [] f = "client_id"   -> "_client_id_state"
      [] f = "secret_key"  -> "_secret_state"

SetterFrame ==
    \A f \in Setters :
       (lastOp' = f /\ hist'[f] # hist[f]) =>
          \A g \in Setters \ {f} :
             /\ builder'[g] = builder[g]
             /\ builder'[MarkerOf(g)] = builder[MarkerOf(g)]

SettersLastWriteWins == []LastWriteHolds /\ [][SetterFrame]_vars

\* bucket_name("bucket-a") then bucket_name("bucket-b"), built, and read back
SettersLastWriteWinsWitness ==
    /\ hist["bucket_name"] = <<"bucket-a", "bucket-b">>
    /\ ret.op = "get_bucket_name" /\ ret.value = "bucket-b"

----------------------------------------------------------------------------
(* The storage service, as the client sees it through the SDK              *)

ObjKeys == {"report.pdf", "noext"}
Byte == {0, 1}
Payloads == UNION {[1..n -> Byte] : n \in 0..MaxLen}

Ok(v)  == [ok |-> TRUE, value |-> v]
Err(m) == [ok |-> FALSE, err |-> m]
Unit == "()"

RECURSIVE Concat(_)
Concat(chunks) ==
    IF chunks = <<>> THEN <<>> ELSE Head(chunks) \o Concat(Tail(chunks))

\* every way of cutting a byte sequence into non-empty chunks
RECURSIVE Chunkings(_)
Chunkings(bytes) ==
    IF bytes = <<>> THEN {<<>>}
    ELSE UNION { { <<SubSeq(bytes, 1, i)>> \o rest :
                     rest \in Chunkings(SubSeq(bytes, i + 1, Len(bytes))) } :
                 i \in 1..Len(bytes) }

Prefixes(seq) == {SubSeq(seq, 1, n) : n \in 0..Len(seq)}

\* the body streams a get-object response can carry for an object: every
\* chunking of its bytes, delivered whole or broken off by a stream error
BodyStreams(bytes) ==
    UNION { {[chunks |-> c, err |-> FALSE]} \cup
            {[chunks |-> p, err |-> TRUE] : p \in Prefixes(c) \ {c}} :
            c \in Chunkings(bytes) }

Absent == [present |-> FALSE, bytes |-> <<>>]

InitStore ==
    [b \in Buckets |-> [exists |-> TRUE, objects |-> [k \in ObjKeys |-> Absent]]]

Failed == [ok |-> FALSE]

\* what the service may answer to one request, and the store it leaves
ServiceOutcomes(st, req) ==
    LET b == st[req.bucket] IN
    {[resp |-> Failed, store |-> st]} \cup
    CASE req.op = "CreateBucket" ->
           {[resp |-> [ok |-> TRUE],
             store |-> [st EXCEPT ![req.bucket].exists = TRUE]]}
      [] req.op = "DeleteBucket" ->
           IF b.exists /\ \A k \in ObjKeys : ~b.objects[k].present
           THEN {[resp |-> [ok |-> TRUE],
                  store |-> [st EXCEPT ![req.bucket].exists = FALSE]]}
           ELSE {}
      [] req.op = "PutObject" ->
           IF b.exists
           THEN {[resp |-> [ok |-> TRUE],
                  store |-> [st EXCEPT ![req.bucket].objects[req.key] =
                                [present |-> TRUE, bytes |-> Concat(req.body)]]]}
           ELSE {}
      [] req.op = "DeleteObject" ->
           IF b.exists
           THEN {[resp |-> [ok |-> TRUE],
                  store |-> [st EXCEPT ![req.bucket].objects[req.key] = Absent]]}
           ELSE {}
      [] req.op = "GetObject" ->
           IF b.exists /\ b.objects[req.key].present
           THEN {[resp |-> [ok |-> TRUE, body |-> s], store |-> st] :
                    s \in BodyStreams(b.objects[req.key].bytes)}
           ELSE {}

----------------------------------------------------------------------------
(* CloudFlareR2: bucket and object operations                              *)

\* mime_guess::from_path(key).first_or_octet_stream()
ContentType(key) ==
    IF key = "report.pdf" THEN "application/pdf" ELSE "application/octet-stream"

\* ByteStream::from(Vec<u8>): the whole body as one in-memory chunk
ByteStreamFrom(body) == <<body>>

create_bucket_request(self) == [op |-> "CreateBucket", bucket |-> self.bucket_name]

delete_bucket_request(self) == [op |-> "DeleteBucket", bucket |-> self.bucket_name]

put_object_request(self, key, body) ==
    [op |-> "PutObject", bucket |-> self.bucket_name, key |-> key,
     body |-> ByteStreamFrom(body), content_type |-> ContentType(key)]

delete_object_request(self, key) ==
    [op |-> "DeleteObject", bucket |-> self.bucket_name, key |-> key]

get_object_request(self, key) ==
    [op |-> "GetObject", bucket |-> self.bucket_name, key |-> key]

\* a create_bucket that reports success whatever the service answered
create_bucket_swallows(resp) == Ok(Unit)

create_bucket_result(resp) ==
    IF resp.ok THEN Ok(Unit) ELSE Err("Failed to create bucket")

delete_bucket_result(resp) ==
    IF resp.ok THEN Ok(Unit) ELSE Err("Failed to delete bucket")

put_object_result(key, resp) ==
    IF resp.ok THEN Ok(key) ELSE Err("send")

delete_object_result(resp) ==
    IF resp.ok THEN Ok(TRUE) ELSE Err("send")

\* a collect that keeps the first chunk only
collect_firstChunk(stream) ==
    IF stream.err THEN Err("collect")
    ELSE Ok(IF stream.chunks = <<>> THEN <<>> ELSE stream.chunks[1])

\* ByteStream::collect().await?.into_bytes().to_vec()
collect(stream) ==
    IF stream.err THEN Err("collect") ELSE Ok(Concat(stream.chunks))

get_object_result(resp) ==
    IF resp.ok THEN collect(resp.body) ELSE Err("send")

NoKey == "-"
Pending == [ok |-> FALSE, pending |-> TRUE]
Unknown == [known |-> FALSE, bytes |-> <<>>]

\* the state of a call right after its request went out
Sent(op, key, body, req) ==
    [pc |-> "sent", op |-> op, key |-> key, body |-> body, req |-> req,
     nreq |-> 1, resp |-> Pending, result |-> Pending]

CanInvoke == client.built /\ call.pc \in {"idle", "returned"}

InvokeCreateBucket ==
    /\ CanInvoke
    /\ call' = Sent("create_bucket", NoKey, <<>>, create_bucket_request(client))
    /\ UNCHANGED <<store, lastPut>>
    /\ UNCHANGED notObj

InvokeDeleteBucket ==
    /\ CanInvoke
    /\ call' = Sent("delete_bucket", NoKey, <<>>, delete_bucket_request(client))
    /\ UNCHANGED <<store, lastPut>>
    /\ UNCHANGED notObj

InvokePutObject ==
    /\ CanInvoke
    /\ \E key \in ObjKeys, body \in Payloads :
         /\ call' = Sent("put_object", key, body, put_object_request(client, key, body))
         /\ lastPut' = [lastPut EXCEPT ![key] = Unknown]
    /\ UNCHANGED store
    /\ UNCHANGED notObj

InvokeDeleteObject ==
    /\ CanInvoke
    /\ \E key \in ObjKeys :
         /\ call' = Sent("delete_object", key, <<>>, delete_object_request(client, key))
         /\ lastPut' = [lastPut EXCEPT ![key] = Unknown]
    /\ UNCHANGED store
    /\ UNCHANGED notObj

InvokeGetObject ==
    /\ CanInvoke
    /\ \E key \in ObjKeys :
         call' = Sent("get_object", key, <<>>, get_object_request(client, key))
    /\ UNCHANGED <<store, lastPut>>
    /\ UNCHANGED notObj

\* the service answers the request in flight
ServiceRespond ==
    /\ call.pc = "sent"
    /\ \E o \in ServiceOutcomes(store, call.req) :
         /\ store' = o.store
         /\ call' = [call EXCEPT !.pc = "responded", !.resp = o.resp]
    /\ UNCHANGED lastPut
    /\ UNCHANGED notObj

ResultOf(c) ==
    CASE c.op = "create_bucket" -> create_bucket_result(c.resp)
      [] c.op = "delete_bucket" -> delete_bucket_result(c.resp)
      [] c.op = "put_object"    -> put_object_result(c.key, c.resp)
      [] c.op = "delete_object" -> delete_object_result(c.resp)
      [] c.op = "get_object"    -> get_object_result(c.resp)

\* the call resumes after its await and returns
Return ==
    /\ call.pc = "responded"
    /\ LET r == ResultOf(call) IN
         /\ call' = [call EXCEPT !.pc = "returned", !.result = r]
         /\ lastPut' = IF call.op = "put_object" /\ r.ok
                       THEN [lastPut EXCEPT ![call.key] = [known |-> TRUE, bytes |-> call.body]]
                       ELSE lastPut
    /\ UNCHANGED store
    /\ UNCHANGED notObj

\* a client as build returns it for bucket b
BuiltFor(b) ==
    build(secret_key(client_id(url(bucket_name(New, b), "https://a.r2"), "id-1"), "secret-1")).client

InitBuilt(buckets) ==
    /\ builder = Consumed
    /\ hist = [f \in Setters |-> <<>>]
    /\ lastOp = "build"
    /\ ret = [op |-> "build", ok |-> TRUE]
    /\ \E b \in buckets : client = BuiltFor(b)

ObjInit ==
    /\ InitBuilt(Buckets)
    /\ store = InitStore
    /\ call = Idle
    /\ lastPut = [k \in ObjKeys |-> Unknown]
    /\ listing = <<>> /\ lk = <<>> /\ dl = Idle /\ fs = <<>>

ObjNext ==
    \/ InvokeCreateBucket
    \/ InvokeDeleteBucket
    \/ InvokePutObject
    \/ InvokeDeleteObject
    \/ InvokeGetObject
    \/ ServiceRespond
    \/ Return

ObjSpec == ObjInit /\ [][ObjNext]_vars

----------------------------------------------------------------------------
(* C7: a successful put_object(k, bytes) followed by get_object(k), with   *)
(* no put or delete of k in between, returns exactly bytes; put_object     *)
(* sends key and body unchanged to the client's bucket and returns the key,*)
(* get_object asks the same bucket and key.                                *)
PutGetRoundTrip ==
    /\ call.pc # "idle" /\ call.op = "put_object" =>
         /\ call.req.bucket = client.bucket_name
         /\ call.req.key = call.key
         /\ Concat(call.req.body) = call.body
         /\ call.pc = "returned" /\ call.result.ok => call.result.value = call.key
    /\ call.pc # "idle" /\ call.op = "get_object" =>
         /\ call.req.bucket = client.bucket_name
         /\ call.req.key = call.key
         /\ call.pc = "returned" /\ call.result.ok /\ lastPut[call.key].known =>
              call.result.value = lastPut[call.key].bytes

\* a two-byte body came back whole from a response that carried it in two chunks
PutGetRoundTripWitness ==
    /\ call.pc = "returned" /\ call.op = "get_object" /\ call.result.ok
    /\ lastPut[call.key].known /\ Len(lastPut[call.key].bytes) = 2
    /\ Len(call.resp.body.chunks) = 2
    /\ call.result.value = lastPut[call.key].bytes

(* C8: create_bucket, delete_bucket, put_object, get_object and            *)
(* delete_object each issue exactly one request, against the bucket fixed  *)
(* at build; a failed request gives an error and no second request, and    *)
(* success is returned only if the request succeeded.                      *)
SingleRequestNoRetry ==
    call.pc # "idle" =>
       /\ call.nreq = 1
       /\ call.req.bucket = client.bucket_name
       /\ call.pc = "returned" =>
            /\ call.result.ok => call.resp.ok
            /\ ~call.resp.ok => ~call.result.ok

\* a create_bucket whose request failed has returned an error
SingleRequestNoRetryWitness ==
    /\ call.pc = "returned" /\ call.op = "create_bucket"
    /\ ~call.resp.ok /\ ~call.result.ok /\ call.nreq = 1

----------------------------------------------------------------------------
(* The listing of the bucket, as the service pages it                      *)

KeyNames == <<"a.txt", "b.txt", "c.txt", "d.txt", "e.txt">>

NoneV == [some |-> FALSE]
Some(v) == [some |-> TRUE, v |-> v]

Min(a, b) == IF a <= b THEN a ELSE b

\* the pages the bucket's keys are served in; an empty bucket has one empty page
NumPages ==
    IF listing.keys = <<>> THEN 1
    ELSE (Len(listing.keys) + listing.pageSize - 1) \div listing.pageSize

PageKeys(p) ==
    SubSeq(listing.keys, (p - 1) * listing.pageSize + 1,
           Min(p * listing.pageSize, Len(listing.keys)))

\* continuation tokens are opaque to the client; the service reads one as
\* the page to serve next
PageOf(token) == IF token.some THEN token.v ELSE 1

ObjectsOf(keys) == [i \in 1..Len(keys) |-> [key |-> Some(keys[i])]]

\* the answers the service may give to one list request: a failure, the page
\* asked for, or that page marked truncated without a next token
ListResponses(req) ==
    LET p == PageOf(req.continuation_token)
        objs == ObjectsOf(PageKeys(p))
        conts == IF objs = <<>> THEN {NoneV, Some(<<>>)} ELSE {Some(objs)}
    IN  {[ok |-> FALSE, conformant |-> TRUE]} \cup
        { [ok |-> TRUE, conformant |-> TRUE, contents |-> c,
           is_truncated |-> t.tr, next_continuation_token |-> t.nx] :
             c \in conts,
             t \in IF p < NumPages
                   THEN {[tr |-> Some(TRUE), nx |-> Some(p + 1)]}
                   ELSE {[tr |-> Some(FALSE), nx |-> NoneV], [tr |-> NoneV, nx |-> NoneV]} }
        \cup
        { [ok |-> TRUE, conformant |-> FALSE, contents |-> c,
           is_truncated |-> Some(TRUE), next_continuation_token |-> NoneV] :
             c \in conts }

----------------------------------------------------------------------------
(* CloudFlareR2::list_keys                                                 *)

Invs == {1, 2}

list_objects_request(self, continuation_token) ==
    [op |-> "ListObjectsV2", bucket |-> self.bucket_name,
     continuation_token |-> continuation_token]

unwrap_or(opt, default) == IF opt.some THEN opt.v ELSE default

\* a page whose keys replace the keys collected so far
PushKeys_replaces(keys, contents) ==
    IF contents.some
    THEN [i \in 1..Len(contents.v) |-> contents.v[i].key.v]
    ELSE <<>>

RECURSIVE PushAll(_, _)
PushAll(keys, objs) ==
    IF objs = <<>> THEN keys
    ELSE PushAll(IF Head(objs).key.some THEN Append(keys, Head(objs).key.v) ELSE keys,
                 Tail(objs))

\* the keys of one page, pushed in order; objects without a key are skipped
PushKeys(keys, contents) ==
    IF contents.some THEN PushAll(keys, contents.v) ELSE keys

\* a page failure that ends the loop with the keys collected so far
list_keys_resume_partial(l, resp) ==
    IF ~resp.ok
    THEN [l EXCEPT !.pc = "done", !.result = Ok(l.keys)]
    ELSE LET keys == PushKeys(l.keys, resp.contents) IN
         IF unwrap_or(resp.is_truncated, FALSE)
         THEN [l EXCEPT !.pc = "send", !.keys = keys,
                        !.continuation_token = resp.next_continuation_token]
         ELSE [l EXCEPT !.pc = "done", !.keys = keys, !.result = Ok(keys)]

\* the loop body after send().await: `?`, the pushes, the truncation test
list_keys_resume(l, resp) ==
    IF ~resp.ok
    THEN [l EXCEPT !.pc = "done", !.result = Err("send")]
    ELSE LET keys == PushKeys(l.keys, resp.contents) IN
         IF unwrap_or(resp.is_truncated, FALSE)
         THEN [l EXCEPT !.pc = "send", !.keys = keys,
                        !.continuation_token = resp.next_continuation_token]
         ELSE [l EXCEPT !.pc = "done", !.keys = keys, !.result = Ok(keys)]

\* the head of the loop: build the request from the local token and send it
list_keys_send(l) ==
    [l EXCEPT !.pc = "await",
              !.req = list_objects_request(client, l.continuation_token),
              !.nreq = l.nreq + 1]

NotStarted ==
    [pc |-> "idle", keys |-> <<>>, continuation_token |-> NoneV,
     req |-> Pending, resp |-> Pending, nreq |-> 0, result |-> Pending,
     failedAt |-> 0, anomalous |-> FALSE, overlapped |-> FALSE]

InFlight(j) == lk[j].pc \in {"await", "resume"}

\* list_keys is called: keys and token start empty, the first request goes out
ListStart(i) ==
    /\ lk[i].pc = "idle"
    /\ lk' = [lk EXCEPT ![i] = list_keys_send(
                 [lk[i] EXCEPT !.keys = <<>>, !.continuation_token = NoneV])]
    /\ UNCHANGED <<listing, notList>>

\* the service answers the page request in flight
ListRespond(i) ==
    /\ lk[i].pc = "await"
    /\ \E r \in ListResponses(lk[i].req) :
         lk' = [lk EXCEPT ![i] =
                  [@ EXCEPT !.pc = "resume", !.resp = r,
                            !.failedAt = IF ~r.ok /\ @ = 0 THEN lk[i].nreq ELSE @,
                            !.anomalous = @ \/ ~r.conformant]]
    /\ UNCHANGED <<listing, notList>>

\* the invocation resumes: it returns, or it sends the next page request
ListResume(i) ==
    /\ lk[i].pc = "resume"
    /\ LET l == list_keys_resume(lk[i], lk[i].resp) IN
         IF l.pc = "send"
         THEN /\ l.nreq < MaxReqs
              /\ lk' = [lk EXCEPT ![i] =
                          [list_keys_send(l) EXCEPT
                              !.overlapped = @ \/ \E j \in Invs \ {i} : InFlight(j)]]
         ELSE lk' = [lk EXCEPT ![i] = l]
    /\ UNCHANGED <<listing, notList>>

ListInit ==
    /\ InitBuilt({"bucket-a"})
    /\ store = <<>> /\ call = Idle /\ lastPut = <<>>
    /\ \E n \in 0..MaxKeys, ps \in 1..MaxPageSize :
         listing = [keys |-> SubSeq(KeyNames, 1, n), pageSize |-> ps]
    /\ lk = [i \in Invs |-> NotStarted]
    /\ dl = Idle /\ fs = <<>>

ListNext ==
    \/ \E i \in Invs : ListStart(i)
    \/ \E i \in Invs : ListRespond(i)
    \/ \E i \in Invs : ListResume(i)

ListSpec == ListInit /\ [][ListNext]_vars

----------------------------------------------------------------------------
(* C3: when every answer of the service was a page as the service pages    *)
(* the bucket, a list_keys invocation that succeeds returns each key of    *)
(* the bucket exactly once, in page order, also with another invocation    *)
(* interleaved.                                                            *)
PaginationComplete ==
    \A i \in Invs :
       lk[i].pc = "done" /\ lk[i].result.ok /\ ~lk[i].anomalous =>
          lk[i].result.value = listing.keys

\* both invocations drained a bucket of several pages, their requests interleaved
PaginationCompleteWitness ==
    /\ NumPages >= 2
    /\ \A i \in Invs :
          /\ lk[i].pc = "done" /\ lk[i].result.ok /\ ~lk[i].anomalous
          /\ lk[i].overlapped
          /\ lk[i].result.value = listing.keys

(* C4: once a page request of an invocation has failed, the invocation     *)
(* sends nothing more and returns an error carrying no keys; a successful  *)
(* result means no page request failed.                                    *)
NeverPartialOnError ==
    \A i \in Invs :
       /\ lk[i].failedAt # 0 =>
            /\ lk[i].nreq = lk[i].failedAt
            /\ lk[i].pc \in {"resume", "done"}
            /\ lk[i].pc = "done" =>
                 ~lk[i].result.ok /\ "value" \notin DOMAIN lk[i].result
       /\ lk[i].pc = "done" /\ lk[i].result.ok => lk[i].failedAt = 0

\* the second page request failed after the first page's keys were collected
NeverPartialOnErrorWitness ==
    \E i \in Invs :
       /\ lk[i].pc = "done" /\ ~lk[i].result.ok
       /\ lk[i].failedAt = 2 /\ lk[i].nreq = 2
       /\ lk[i].keys # <<>>

(* C9: list_keys is a linear drain: its first request carries no token,    *)
(* every later request carries the token of the preceding response, and it *)
(* asks for no more pages than the bucket has, whatever the service        *)
(* answers.                                                                *)
LinearDrain ==
    \A i \in Invs :
       /\ lk[i].pc = "await" /\ lk[i].nreq = 1 => ~lk[i].req.continuation_token.some
       /\ lk[i].pc = "await" /\ lk[i].nreq >= 2 =>
            lk[i].req.continuation_token = lk[i].resp.next_continuation_token
       /\ lk[i].nreq <= NumPages

----------------------------------------------------------------------------
(* Paths and the local file system (std::path, std::fs)                    *)

\* a key is a string, here a sequence of characters; a path is a sequence
\* of components from the root, a component a sequence of characters
ParentDir == <<".", ".">>
CurDir == <<".">>

\* the segments of a string between its separators
RECURSIVE Split(_, _)
Split(str, seg) ==
    IF str = <<>> THEN <<seg>>
    ELSE IF Head(str) = "/" THEN <<seg>> \o Split(Tail(str), <<>>)
    ELSE Split(Tail(str), Append(seg, Head(str)))

RECURSIVE Normal(_)
Normal(segs) ==
    IF segs = <<>> THEN <<>>
    ELSE IF Head(segs) \in {<<>>, CurDir} THEN Normal(Tail(segs))
    ELSE <<Head(segs)>> \o Normal(Tail(segs))

\* Path::components of a string: a leading separator is the root, empty
\* segments and "." are dropped, ".." is kept
Components(str) ==
    [abs |-> str # <<>> /\ str[1] = "/", comps |-> Normal(Split(str, <<>>))]

\* Path::join: an absolute argument replaces the path it is joined onto
join(dir, key) ==
    LET c == Components(key) IN IF c.abs THEN c.comps ELSE dir \o c.comps

\* Path::parent: the path without its last component, none for the root
parent(path) ==
    IF path = <<>> THEN NoneV ELSE Some(SubSeq(path, 1, Len(path) - 1))

\* to_string_lossy of an absolute path
RECURSIVE PathString(_)
PathString(path) ==
    IF path = <<>> THEN <<>> ELSE <<"/">> \o Head(path) \o PathString(Tail(path))

Up(at) == IF at = <<>> THEN <<>> ELSE SubSeq(at, 1, Len(at) - 1)

\* where the system finds a path: every component before the last must lead
\* through an existing directory, ".." steps up
RECURSIVE Locate(_, _), ResolveDir(_, _)
Locate(f, path) ==
    IF path = <<>> THEN [ok |-> TRUE, at |-> <<>>]
    ELSE LET pr == ResolveDir(f, SubSeq(path, 1, Len(path) - 1))
             last == path[Len(path)]
         IN  IF ~pr.ok THEN pr
             ELSE IF last = ParentDir THEN [ok |-> TRUE, at |-> Up(pr.at)]
             ELSE [ok |-> TRUE, at |-> Append(pr.at, last)]

ResolveDir(f, path) ==
    LET loc == Locate(f, path) IN
    IF ~loc.ok THEN loc
    ELSE IF loc.at \in f.dirs THEN loc
    ELSE IF loc.at \in DOMAIN f.files THEN [ok |-> FALSE, err |-> "NotADirectory"]
    ELSE [ok |-> FALSE, err |-> "NotFound"]

exists(f, path) ==
    LET loc == Locate(f, path) IN loc.ok /\ loc.at \in f.dirs \cup DOMAIN f.files

\* a destination test that accepts whatever exists
is_dir_acceptsFiles(f, path) == exists(f, path)

is_dir(f, path) ==
    LET loc == Locate(f, path) IN loc.ok /\ loc.at \in f.dirs

mkdir(f, path) ==
    LET loc == Locate(f, path) IN
    IF ~loc.ok THEN [ok |-> FALSE, err |-> loc.err, fs |-> f]
    ELSE IF loc.at \in f.dirs \cup DOMAIN f.files
    THEN [ok |-> FALSE, err |-> "AlreadyExists", fs |-> f]
    ELSE [ok |-> TRUE, fs |-> [f EXCEPT !.dirs = @ \cup {loc.at}]]

\* std::fs::create_dir_all: try the directory, on NotFound create the parent
\* first; a directory that is already there is no error
RECURSIVE create_dir_all(_, _)
create_dir_all(f, path) ==
    IF path = <<>> THEN [ok |-> TRUE, fs |-> f]
    ELSE LET m == mkdir(f, path) IN
         IF m.ok THEN m
         ELSE IF m.err # "NotFound"
         THEN [ok |-> is_dir(f, path), fs |-> f]
         ELSE LET r == create_dir_all(f, parent(path).v) IN
              IF ~r.ok THEN r
              ELSE LET m2 == mkdir(r.fs, path) IN
                   IF m2.ok THEN m2 ELSE [ok |-> is_dir(r.fs, path), fs |-> r.fs]

WriteFile(f, at, bytes) ==
    [f EXCEPT !.files = [q \in DOMAIN f.files \cup {at} |->
                            IF q = at THEN bytes ELSE f.files[q]]]

\* File::create: the file is created, or truncated when it is there
file_create(f, path) ==
    LET loc == Locate(f, path) IN
    IF ~loc.ok THEN [ok |-> FALSE, fs |-> f]
    ELSE IF loc.at \in f.dirs THEN [ok |-> FALSE, fs |-> f]
    ELSE [ok |-> TRUE, at |-> loc.at, fs |-> WriteFile(f, loc.at, <<>>)]

----------------------------------------------------------------------------
(* BufWriter<File>                                                         *)

\* BufWriter::flush_buf: the buffer goes to the file whole, or an error
\* leaves a part of it written
FlushOutcomes(buf, content) ==
    {[ok |-> TRUE, buf |-> <<>>, content |-> content \o buf]} \cup
    {[ok |-> FALSE, buf |-> SubSeq(buf, n + 1, Len(buf)),
      content |-> content \o SubSeq(buf, 1, n)] : n \in 0..(Len(buf) - 1)}

\* File::write: the file takes any non-empty part of the bytes, or fails
FileWriteOutcomes(buf, content, bytes) ==
    {[ok |-> TRUE, buf |-> buf, content |-> content \o SubSeq(bytes, 1, n)] :
        n \in (IF bytes = <<>> THEN {0} ELSE 1..Len(bytes))} \cup
    {[ok |-> FALSE, buf |-> buf, content |-> content]}

\* BufWriter::write, whose returned count download_file drops: bytes that
\* fit are buffered; otherwise the buffer is flushed when they exceed the
\* spare room, and bytes no shorter than the capacity go to the file directly
WriteOutcomes(buf, content, bytes) ==
    LET spare == BufCap - Len(buf) IN
    IF Len(bytes) < spare
    THEN {[ok |-> TRUE, buf |-> buf \o bytes, content |-> content]}
    ELSE LET flushed == IF Len(bytes) > spare
                        THEN FlushOutcomes(buf, content)
                        ELSE {[ok |-> TRUE, buf |-> buf, content |-> content]}
         IN  UNION { IF ~o.ok THEN {o}
                     ELSE IF Len(bytes) >= BufCap
                     THEN FileWriteOutcomes(o.buf, o.content, bytes)
                     ELSE {[ok |-> TRUE, buf |-> o.buf \o bytes, content |-> o.content]} :
                     o \in flushed }

----------------------------------------------------------------------------
(* CloudFlareR2::download_file                                             *)

DirT == << <<"t">> >>
DirOut == << <<"t">>, <<"o">> >>
FileF == << <<"t">>, <<"f">> >>
FileOutF == << <<"t">>, <<"o">>, <<"f">> >>
Missing == << <<"t">>, <<"m">> >>

\* the file system before the download: /t, /t/o, and two regular files
InitFs ==
    [dirs |-> {<<>>, DirT, DirOut},
     files |-> [q \in {FileF, FileOutF} |-> <<9>>]]

\* the destinations tried: a directory, a regular file, a missing path
DlDirs == {DirOut, FileF, Missing}

\* the keys tried: k, a/k, /e/k, ../f, f/a/k, a/../../k
DlKeys ==
    { <<"k">>,
      <<"a", "/", "k">>,
      <<"/", "e", "/", "k">>,
      <<".", ".", "/", "f">>,
      <<"f", "/", "a", "/", "k">>,
      <<"a", "/", ".", ".", "/", ".", ".", "/", "k">> }

ObjectOfLen(n) == [i \in 1..n |-> i]

download_request(self, key) ==
    [op |-> "GetObject", bucket |-> self.bucket_name, key |-> key]

\* download_file up to its first await: the destination test, the target
\* path, the parent directories, the get-object request
download_file_begin(d, f, key, dir) ==
    LET checked == [d EXCEPT !.key = key, !.dir = dir, !.events = <<"check">>] IN
    IF ~is_dir(f, dir)
    THEN [dl |-> [checked EXCEPT !.pc = "done", !.result = Err("not a directory")],
          fs |-> f]
    ELSE LET file_path == join(dir, key)
             parent_dir == parent(file_path)
         IN  IF ~parent_dir.some
             THEN [dl |-> [checked EXCEPT !.pc = "done", !.result = Err("invalid parent")],
                   fs |-> f]
             ELSE LET made == IF ~exists(f, parent_dir.v)
                              THEN create_dir_all(f, parent_dir.v)
                              ELSE [ok |-> TRUE, fs |-> f]
                      ev == IF ~exists(f, parent_dir.v)
                            THEN <<"check", "mkdir">> ELSE <<"check">>
                  IN  IF ~made.ok
                      THEN [dl |-> [checked EXCEPT !.pc = "done", !.events = ev,
                                                   !.result = Err("create_dir_all")],
                            fs |-> made.fs]
                      ELSE [dl |-> [checked EXCEPT
                                      !.pc = "await", !.file_path = file_path,
                                      !.events = Append(ev, "request"),
                                      !.req = download_request(client, key),
                                      !.nreq = d.nreq + 1],
                            fs |-> made.fs]

\* after send().await: `?`, then File::create and the BufWriter around it
download_file_resume(d, f) ==
    IF ~d.resp.ok
    THEN [dl |-> [d EXCEPT !.pc = "done", !.result = Err("send")], fs |-> f]
    ELSE LET c == file_create(f, d.file_path) IN
         IF ~c.ok
         THEN [dl |-> [d EXCEPT !.pc = "done", !.events = Append(@, "create"),
                                !.result = Err("create")],
               fs |-> f]
         ELSE [dl |-> [d EXCEPT !.pc = "stream", !.events = Append(@, "create"),
                                !.at = c.at, !.data = d.resp.body, !.buf = <<>>],
               fs |-> c.fs]

NoDownload ==
    [pc |-> "idle", key |-> <<>>, dir |-> <<>>, file_path |-> <<>>, at |-> <<>>,
     req |-> Pending, nreq |-> 0, resp |-> Pending,
     data |-> [chunks |-> <<>>, err |-> FALSE], buf |-> <<>>,
     result |-> Pending, events |-> <<>>]

DlStart ==
    /\ dl.pc = "idle"
    /\ \E key \in DlKeys, dir \in DlDirs :
         LET r == download_file_begin(dl, fs.now, key, dir) IN
           /\ dl' = r.dl
           /\ fs' = [fs EXCEPT !.now = r.fs]
    /\ UNCHANGED notDownload

\* the service answers the get-object request in flight
DlRespond ==
    /\ dl.pc = "await"
    /\ \E o \in ServiceOutcomes(store, dl.req) :
         dl' = [dl EXCEPT !.pc = "resume", !.resp = o.resp]
    /\ UNCHANGED <<fs, notDownload>>

DlResume ==
    /\ dl.pc = "resume"
    /\ LET r == download_file_resume(dl, fs.now) IN
         /\ dl' = r.dl
         /\ fs' = [fs EXCEPT !.now = r.fs]
    /\ UNCHANGED notDownload

\* try_next gave a chunk: buf_writer.write(&bytes)?, its count unused
DlChunk ==
    /\ dl.pc = "stream" /\ dl.data.chunks # <<>>
    /\ \E o \in WriteOutcomes(dl.buf, fs.now.files[dl.at], Head(dl.data.chunks)) :
         IF o.ok
         THEN /\ dl' = [dl EXCEPT !.buf = o.buf, !.data.chunks = Tail(@)]
              /\ fs' = [fs EXCEPT !.now = WriteFile(@, dl.at, o.content)]
         ELSE \* the error returns; dropping the BufWriter tries one more flush
              \E fl \in FlushOutcomes(o.buf, o.content) :
                /\ dl' = [dl EXCEPT !.pc = "done", !.buf = fl.buf, !.result = Err("write")]
                /\ fs' = [fs EXCEPT !.now = WriteFile(@, dl.at, fl.content)]
    /\ UNCHANGED notDownload

\* try_next gave an error: it returns, the dropped BufWriter tries a flush
DlStreamError ==
    /\ dl.pc = "stream" /\ dl.data.chunks = <<>> /\ dl.data.err
    /\ \E fl \in FlushOutcomes(dl.buf, fs.now.files[dl.at]) :
         /\ dl' = [dl EXCEPT !.pc = "done", !.buf = fl.buf, !.result = Err("try_next")]
         /\ fs' = [fs EXCEPT !.now = WriteFile(@, dl.at, fl.content)]
    /\ UNCHANGED notDownload

\* try_next gave None: buf_writer.flush()?, then the path as a string
DlFinish ==
    /\ dl.pc = "stream" /\ dl.data.chunks = <<>> /\ ~dl.data.err
    /\ \E fl \in FlushOutcomes(dl.buf, fs.now.files[dl.at]) :
         /\ dl' = [dl EXCEPT !.pc = "done", !.buf = fl.buf,
                             !.result = IF fl.ok THEN Ok(PathString(dl.file_path))
                                         ELSE Err("flush")]
         /\ fs' = [fs EXCEPT !.now = WriteFile(@, dl.at, fl.content)]
    /\ UNCHANGED notDownload

\* every key tried names an object of the same bytes, in every bucket
DownloadStore(n) ==
    [b \in Buckets |->
       [exists |-> TRUE,
        objects |-> [k \in DlKeys |-> [present |-> TRUE, bytes |-> ObjectOfLen(n)]]]]

DownloadInit ==
    /\ InitBuilt({"bucket-a"})
    /\ \E n \in 0..MaxObjLen : store = DownloadStore(n)
    /\ call = Idle /\ lastPut = <<>>
    /\ listing = <<>> /\ lk = <<>>
    /\ dl = NoDownload
    /\ fs = [now |-> InitFs, before |-> InitFs]

DownloadNext ==
    \/ DlStart
    \/ DlRespond
    \/ DlResume
    \/ DlChunk
    \/ DlStreamError
    \/ DlFinish

DownloadSpec == DownloadInit /\ [][DownloadNext]_vars

----------------------------------------------------------------------------
IsPrefix(a, b) == Len(a) <= Len(b) /\ SubSeq(b, 1, Len(a)) = a

\* the directories and files the download made or changed
Touched ==
    (fs.now.dirs \ fs.before.dirs) \cup
    {q \in DOMAIN fs.now.files :
        q \notin DOMAIN fs.before.files \/ fs.now.files[q] # fs.before.files[q]}

Rank(e) ==
    CASE e = "check" -> 1 [] e = "mkdir" -> 2 [] e = "request" -> 3 [] e = "create" -> 4

(* C5: whenever download_file returns success, the file at the returned    *)
(* path holds exactly the object's bytes, whatever the chunking of the     *)
(* stream and whatever each write call did.                                *)
DownloadCorrect ==
    dl.pc = "done" /\ dl.result.ok =>
       LET loc == Locate(fs.now, Components(dl.result.value).comps) IN
          /\ loc.ok /\ loc.at \in DOMAIN fs.now.files
          /\ fs.now.files[loc.at] = store[client.bucket_name].objects[dl.key].bytes

(* C6: a destination that is no existing directory is rejected with no     *)
(* request sent and nothing created; in every execution the destination    *)
(* check comes before directory creation, that before the get-object       *)
(* request, that before the creation of the target file.                   *)
InvalidDestinationRejected ==
    /\ dl.pc # "idle" /\ dl.dir \notin fs.before.dirs =>
         /\ dl.pc = "done" /\ ~dl.result.ok
         /\ dl.nreq = 0
         /\ fs.now = fs.before
         /\ dl.events = <<"check">>
    /\ dl.pc # "idle" => dl.events # <<>> /\ dl.events[1] = "check"
    /\ \A i \in 1..(Len(dl.events) - 1) : Rank(dl.events[i]) < Rank(dl.events[i + 1])
    /\ dl.nreq > 0 <=> \E i \in 1..Len(dl.events) : dl.events[i] = "request"
    /\ Touched # {} => dl.dir \in fs.before.dirs

\* a download into a regular file has returned its error
InvalidDestinationRejectedWitness ==
    /\ dl.pc = "done" /\ dl.dir = FileF /\ ~dl.result.ok
    /\ dl.events = <<"check">>

(* C10: every directory and file a download creates or overwrites lies     *)
(* inside dir, for every key.                                              *)
DownloadContained ==
    \A q \in Touched : IsPrefix(dl.dir, q)

====
